---- MODULE Spec2Model ----
(***************************************************************************)
(* A model of refaudit (src/main.go).                                      *)
(*                                                                         *)
(*   Spec / FairSpec   runOnFiles: one walking producer, one consumer, a   *)
(*                     buffered channel and an errgroup, called by one     *)
(*                     extraction pass.                                    *)
(*   SpecReport        main building the Report from the two result sets   *)
(*                     with sortedInsert.                                  *)
(*   SpecExports       findExports' callback: exportVisitor over the       *)
(*                     syntax trees of the files of one pass.              *)
(*   SpecRefs          findImports' callback: refVisitor over the syntax   *)
(*                     trees of the files of one pass.                     *)
(*                                                                         *)
(* Strings are sequences of tokens: the separator "/", the suffixes ".go", *)
(* ".txt" and name stems are one token each, so that strings.Contains,     *)
(* strings.TrimSuffix and strings.HasSuffix are computed on the text.      *)
(***************************************************************************)
EXTENDS Integers, Sequences, FiniteSets, TLC

VARIABLES
    files,      \* runOnFiles argument: the roots, in order
    excluding,  \* runOnFiles argument: the excluded paths
    rootIdx,    \* producer: index into files of the root being walked
    stack,      \* producer: filepath.Walk's pending entries, one frame per open directory
    pPc,        \* producer position: "loop", "walk", "send", "done"
    pending,    \* producer: the item of the blocked send filesChan <- path
    filesChan,  \* the buffered channel's content
    closed,     \* close(filesChan) has run
    cPc,        \* consumer position: "select", "fn", "done"
    cur,        \* consumer: the item fn is running on
    cancelled,  \* the errgroup context is done
    groupErr,   \* errgroup: the first error recorded
    returned,   \* g.Wait() has returned
    result,     \* what g.Wait() returned
    passPc,     \* the calling pass: "running", "returned"
    passOut,    \* the calling pass's result set: "none", "set", "nil"
    passErr,    \* the calling pass's error
    visited,    \* history: every invocation of fn, in order, with the root whose walk sent it
    visitErr,   \* history: the failure fn returned
    walked,     \* history: indices of the roots whose filepath.Walk began
    ioRoot,     \* history: the root whose traversal failed with an I/O error
    ioFirst,    \* history: no error was recorded in the group before that I/O error
    ioNoVisit,  \* history: no failure of fn was recorded before that I/O error
    globals,    \* main: the export set findExports returned
    refs,       \* main: the usage set findImports returned
    todoG,      \* main: the keys of globals the first range loop has yet to reach
    todoR,      \* main: the keys of refs the second range loop has yet to reach
    rpt,        \* main: the Report being built
    rPc,        \* main: "globals" (first loop), "refs" (second loop), "done"
    iterated,   \* history: the keys of globals in the order the first loop met them
    exFiles,    \* findExports: the parsed files runOnFiles hands to fn, in order
    exIdx,      \* findExports: index of the file fn runs on
    exNodes,    \* findExports: the nodes ast.Walk has yet to visit in that file
    exPkg,      \* exportVisitor.pkgPath
    exPc,       \* findExports: "next", "walk", "done", "failed"
    rfFiles,    \* findImports: the parsed files runOnFiles hands to fn, in order
    rfIdx,      \* findImports: index of the file fn runs on
    rfNodes,    \* findImports: the nodes ast.Walk has yet to visit in that file
    importedPkgs, \* refVisitor.importedPkgs: alias -> import path
    rfPc        \* findImports: "next", "walk", "done", "failed"

walkVars == <<files, excluding, rootIdx, stack, pPc, pending, filesChan, closed, cPc, cur,
              cancelled, groupErr, returned, result, passPc, passOut, passErr,
              visited, visitErr, walked, ioRoot, ioFirst, ioNoVisit>>

reportVars == <<globals, refs, todoG, todoR, rpt, rPc, iterated>>

exportVars == <<exFiles, exIdx, exNodes, exPkg, exPc>>

refVars == <<rfFiles, rfIdx, rfNodes, importedPkgs, rfPc>>

notWalkVars == <<reportVars, exportVars, refVars>>

vars == <<walkVars, reportVars, exportVars, refVars>>

----------------------------------------------------------------------------
(* Bounds of the model. *)
MaxRoots == 2
MaxExcl == 1

(* make(chan string, 4) *)
ChanCap == 4

----------------------------------------------------------------------------
(* Strings. *)
fsep == <<"/">>

HasSuffix(s, suf) ==
    /\ Len(s) >= Len(suf)
    /\ SubSeq(s, Len(s) - Len(suf) + 1, Len(s)) = suf

TrimSuffix(s, suf) ==
    IF HasSuffix(s, suf) THEN SubSeq(s, 1, Len(s) - Len(suf)) ELSE s

Contains(s, sub) ==
    \E i \in 1..(Len(s) - Len(sub) + 1) : SubSeq(s, i, i + Len(sub) - 1) = sub

Join(dir, name) == dir \o fsep \o name

(* Sequences over S of length lo..hi. *)
SeqsOf(S, lo, hi) == UNION {[1..n -> S] : n \in lo..hi}

Range(s) == {s[i] : i \in 1..Len(s)}

----------------------------------------------------------------------------
(* The directory tree the walk runs on.                                    *)
(*   /p/a.go  /p/b.go  /p/c.txt  /p/d.go/{e.go,f.go,g.go}                  *)
(*   /p/vendor/h.go  /p/z.go                                               *)
(* /p/d.go is a directory.  ReadDirNames gives a directory's names sorted, *)
(* as filepath.Walk reads them.                                            *)
P == <<"/", "p">>
D == Join(P, <<"d", ".go">>)
V == Join(P, <<"vendor">>)

ReadDirNames(path) ==
    CASE path = P -> << <<"a", ".go">>, <<"b", ".go">>, <<"c", ".txt">>, <<"d", ".go">>,
                        <<"vendor">>, <<"z", ".go">> >>
      [] path = D -> << <<"e", ".go">>, <<"f", ".go">>, <<"g", ".go">> >>
      [] path = V -> << <<"h", ".go">> >>
      [] OTHER -> << >>

Dirs == {P, D, V}

IsDir(path) == path \in Dirs

RECURSIVE Beneath(_)
Beneath(path) ==
    {path} \cup
    UNION {Beneath(Join(path, ReadDirNames(path)[i])) : i \in 1..Len(ReadDirNames(path))}

Nodes == Beneath(P)

RegularFiles == Nodes \ Dirs

(* The arguments the callers may pass (absolute paths, as expandPath returns). *)
RootCands == {P, D, Join(P, <<"z", ".go">>)}

ExclCands == {D, D \o fsep, Join(P, <<"a", ".go">>), P}

----------------------------------------------------------------------------
(* Errors. *)
Nil == [kind |-> "nil", path |-> << >>, cause |-> ""]

CtxErr == [kind |-> "ctx", path |-> << >>, cause |-> ""]

VisitError(file) == [kind |-> "visit", path |-> file, cause |-> ""]

WalkError(root, cause) == [kind |-> "walk", path |-> root, cause |-> cause]

PassError(err) == [kind |-> "pass", path |-> err.path, cause |-> err.kind]

----------------------------------------------------------------------------
(* The report is not being built. *)
ReportIdle ==
    /\ globals = {}
    /\ refs = {}
    /\ todoG = {}
    /\ todoR = {}
    /\ rpt = [Exported |-> << >>, Imported |-> << >>, UnusedExports |-> << >>]
    /\ rPc = "idle"
    /\ iterated = << >>

(* No file is being scanned for exports. *)
ExportIdle ==
    /\ exFiles = << >>
    /\ exIdx = 1
    /\ exNodes = << >>
    /\ exPkg = << >>
    /\ exPc = "idle"

(* No file is being scanned for references. *)
RefIdle ==
    /\ rfFiles = << >>
    /\ rfIdx = 1
    /\ rfNodes = << >>
    /\ importedPkgs = << >>
    /\ rfPc = "idle"

----------------------------------------------------------------------------
(* The walk callback of runOnFiles. *)
vendor == fsep \o <<"vendor">> \o fsep

VendorSkip(path) == Contains(path, vendor)

(* Excluded without the trailing separator stripped from either side. *)
ExcludedNoTrim(path, excl) ==
    \E i \in 1..Len(excl) : path = excl[i]

Excluded(path, excl) ==
    \E i \in 1..Len(excl) : TrimSuffix(path, fsep) = TrimSuffix(excl[i], fsep)

IsGoFile(path) == HasSuffix(path, <<".go">>)

(* What the callback does with one entry: "err" (the traversal's own error),   *)
(* "ctxerr" (ctx.Err()), "skipdir" (filepath.SkipDir), "nil", or "send"        *)
(* (filesChan <- path, then nil).                                              *)
WalkFn(path, isDir, ioErr, ctxDone, excl) ==
    IF ioErr THEN "err"
    ELSE IF ctxDone THEN "ctxerr"
    ELSE IF VendorSkip(path) THEN "skipdir"
    ELSE IF Excluded(path, excl) THEN "skipdir"
    ELSE IF isDir THEN "nil"
    ELSE IF ~IsGoFile(path) THEN "nil"
    ELSE "send"

(* filepath.Walk's pending entries after the callback answered r for the first *)
(* entry of the innermost open directory.  SkipDir on a directory skips its    *)
(* content; SkipDir on a file ends the directory that holds it; nil on a       *)
(* directory opens it.                                                         *)
ChildPaths(dir) == [i \in 1..Len(ReadDirNames(dir)) |-> Join(dir, ReadDirNames(dir)[i])]

RECURSIVE DropDone(_)
DropDone(st) ==
    IF st # << >> /\ Head(st) = << >> THEN DropDone(Tail(st)) ELSE st

WalkAdvance(st, r, isDir) ==
    LET path == Head(Head(st))
        rest == <<Tail(Head(st))>> \o Tail(st)
    IN  DropDone(
            IF r = "skipdir" THEN (IF isDir THEN rest ELSE Tail(st))
            ELSE IF isDir THEN <<ChildPaths(path)>> \o rest
            ELSE rest)

(* errgroup keeping the last error instead of the first. *)
GroupRecordLast(err) ==
    /\ groupErr' = (IF err # Nil THEN err ELSE groupErr)
    /\ cancelled' = (cancelled \/ err # Nil)

(* errgroup: a goroutine of the group returned err. *)
GroupRecord(err) ==
    /\ groupErr' = (IF groupErr = Nil THEN err ELSE groupErr)
    /\ cancelled' = (cancelled \/ err # Nil)

----------------------------------------------------------------------------
(* The producer goroutine. *)
ProducerStartRoot ==
    /\ pPc = "loop"
    /\ rootIdx <= Len(files)
    /\ stack' = << <<files[rootIdx]>> >>
    /\ pPc' = "walk"
    /\ walked' = walked \cup {rootIdx}
    /\ UNCHANGED <<files, excluding, rootIdx, pending, filesChan, closed, cPc, cur, cancelled,
                   groupErr, returned, result, passPc, passOut, passErr, visited, visitErr,
                   ioRoot, ioFirst, ioNoVisit>>
    /\ UNCHANGED notWalkVars

ProducerWalk ==
    /\ pPc = "walk"
    /\ stack # << >>
    /\ \E ioErr \in BOOLEAN :
        LET path == Head(Head(stack))
            r == WalkFn(path, IsDir(path), ioErr, cancelled, excluding)
        IN  IF r \in {"err", "ctxerr"}
            THEN /\ pPc' = "done"
                 /\ stack' = << >>
                 /\ closed' = TRUE
                 /\ GroupRecord(WalkError(files[rootIdx], IF r = "err" THEN "io" ELSE "ctx"))
                 /\ ioRoot' = (IF r = "err" THEN files[rootIdx] ELSE ioRoot)
                 /\ ioFirst' = (IF r = "err" THEN groupErr = Nil ELSE ioFirst)
                 /\ ioNoVisit' = (IF r = "err" THEN visitErr = Nil ELSE ioNoVisit)
                 /\ UNCHANGED pending
            ELSE /\ stack' = WalkAdvance(stack, r, IsDir(path))
                 /\ pPc' = (IF r = "send" THEN "send" ELSE "walk")
                 /\ pending' = (IF r = "send" THEN [path |-> path, root |-> files[rootIdx]]
                                ELSE pending)
                 /\ UNCHANGED <<closed, groupErr, cancelled, ioRoot, ioFirst, ioNoVisit>>
    /\ UNCHANGED <<files, excluding, rootIdx, filesChan, cPc, cur, returned, result,
                   passPc, passOut, passErr, visited, visitErr, walked>>
    /\ UNCHANGED notWalkVars

ProducerSend ==
    /\ pPc = "send"
    /\ Len(filesChan) < ChanCap
    /\ filesChan' = Append(filesChan, pending)
    /\ pPc' = "walk"
    /\ UNCHANGED <<files, excluding, rootIdx, stack, pending, closed, cPc, cur, cancelled,
                   groupErr, returned, result, passPc, passOut, passErr, visited, visitErr,
                   walked, ioRoot, ioFirst, ioNoVisit>>
    /\ UNCHANGED notWalkVars

ProducerWalkReturn ==
    /\ pPc = "walk"
    /\ stack = << >>
    /\ rootIdx' = rootIdx + 1
    /\ pPc' = "loop"
    /\ UNCHANGED <<files, excluding, stack, pending, filesChan, closed, cPc, cur, cancelled,
                   groupErr, returned, result, passPc, passOut, passErr, visited, visitErr,
                   walked, ioRoot, ioFirst, ioNoVisit>>
    /\ UNCHANGED notWalkVars

ProducerFinish ==
    /\ pPc = "loop"
    /\ rootIdx > Len(files)
    /\ pPc' = "done"
    /\ closed' = TRUE
    /\ GroupRecord(Nil)
    /\ UNCHANGED <<files, excluding, rootIdx, stack, pending, filesChan, cPc, cur,
                   returned, result, passPc, passOut, passErr, visited, visitErr,
                   walked, ioRoot, ioFirst, ioNoVisit>>
    /\ UNCHANGED notWalkVars

Producer ==
    \/ ProducerStartRoot
    \/ ProducerWalk
    \/ ProducerSend
    \/ ProducerWalkReturn
    \/ ProducerFinish

----------------------------------------------------------------------------
(* The consumer goroutine. *)
ConsumerCtxDone ==
    /\ cPc = "select"
    /\ cancelled
    /\ cPc' = "done"
    /\ GroupRecord(CtxErr)
    /\ UNCHANGED <<files, excluding, rootIdx, stack, pPc, pending, filesChan, closed, cur,
                   returned, result, passPc, passOut, passErr, visited, visitErr,
                   walked, ioRoot, ioFirst, ioNoVisit>>
    /\ UNCHANGED notWalkVars

ConsumerRecv ==
    /\ cPc = "select"
    /\ filesChan # << >>
    /\ cur' = Head(filesChan)
    /\ filesChan' = Tail(filesChan)
    /\ cPc' = "fn"
    /\ visited' = Append(visited, Head(filesChan))
    /\ UNCHANGED <<files, excluding, rootIdx, stack, pPc, pending, closed, cancelled,
                   groupErr, returned, result, passPc, passOut, passErr, visitErr,
                   walked, ioRoot, ioFirst, ioNoVisit>>
    /\ UNCHANGED notWalkVars

ConsumerClosed ==
    /\ cPc = "select"
    /\ filesChan = << >>
    /\ closed
    /\ cPc' = "done"
    /\ GroupRecord(Nil)
    /\ UNCHANGED <<files, excluding, rootIdx, stack, pPc, pending, filesChan, closed, cur,
                   returned, result, passPc, passOut, passErr, visited, visitErr,
                   walked, ioRoot, ioFirst, ioNoVisit>>
    /\ UNCHANGED notWalkVars

ConsumerFnOk ==
    /\ cPc = "fn"
    /\ cPc' = "select"
    /\ UNCHANGED <<files, excluding, rootIdx, stack, pPc, pending, filesChan, closed, cur,
                   cancelled, groupErr, returned, result, passPc, passOut, passErr, visited,
                   visitErr, walked, ioRoot, ioFirst, ioNoVisit>>
    /\ UNCHANGED notWalkVars

ConsumerFnFail ==
    /\ cPc = "fn"
    /\ cPc' = "done"
    /\ visitErr' = VisitError(cur.path)
    /\ GroupRecord(VisitError(cur.path))
    /\ UNCHANGED <<files, excluding, rootIdx, stack, pPc, pending, filesChan, closed, cur,
                   returned, result, passPc, passOut, passErr, visited,
                   walked, ioRoot, ioFirst, ioNoVisit>>
    /\ UNCHANGED notWalkVars

Consumer ==
    \/ ConsumerCtxDone
    \/ ConsumerRecv
    \/ ConsumerClosed
    \/ ConsumerFnOk
    \/ ConsumerFnFail

----------------------------------------------------------------------------
(* g.Wait(): both goroutines are done. *)
Wait ==
    /\ pPc = "done"
    /\ cPc = "done"
    /\ ~returned
    /\ returned' = TRUE
    /\ result' = groupErr
    /\ cancelled' = TRUE
    /\ UNCHANGED <<files, excluding, rootIdx, stack, pPc, pending, filesChan, closed, cPc, cur,
                   groupErr, passPc, passOut, passErr, visited, visitErr,
                   walked, ioRoot, ioFirst, ioNoVisit>>
    /\ UNCHANGED notWalkVars

(* findExports / findImports after runOnFiles returned. *)
PassReturn ==
    /\ returned
    /\ passPc = "running"
    /\ passPc' = "returned"
    /\ passOut' = (IF result # Nil THEN "nil" ELSE "set")
    /\ passErr' = (IF result # Nil THEN PassError(result) ELSE Nil)
    /\ UNCHANGED <<files, excluding, rootIdx, stack, pPc, pending, filesChan, closed, cPc, cur,
                   cancelled, groupErr, returned, result, visited, visitErr,
                   walked, ioRoot, ioFirst, ioNoVisit>>
    /\ UNCHANGED notWalkVars

(* os.Interrupt cancels the context main passes down. *)
Interrupt ==
    /\ ~cancelled
    /\ ~returned
    /\ cancelled' = TRUE
    /\ UNCHANGED <<files, excluding, rootIdx, stack, pPc, pending, filesChan, closed, cPc, cur,
                   groupErr, returned, result, passPc, passOut, passErr, visited, visitErr,
                   walked, ioRoot, ioFirst, ioNoVisit>>
    /\ UNCHANGED notWalkVars

WalkInit ==
    /\ files \in SeqsOf(RootCands, 1, MaxRoots)
    /\ excluding \in SeqsOf(ExclCands, 0, MaxExcl)
    /\ rootIdx = 1
    /\ stack = << >>
    /\ pPc = "loop"
    /\ pending = [path |-> << >>, root |-> << >>]
    /\ filesChan = << >>
    /\ closed = FALSE
    /\ cPc = "select"
    /\ cur = [path |-> << >>, root |-> << >>]
    /\ cancelled = FALSE
    /\ groupErr = Nil
    /\ returned = FALSE
    /\ result = Nil
    /\ passPc = "running"
    /\ passOut = "none"
    /\ passErr = Nil
    /\ visited = << >>
    /\ visitErr = Nil
    /\ walked = {}
    /\ ioRoot = << >>
    /\ ioFirst = FALSE
    /\ ioNoVisit = FALSE

(* No pass is running. *)
WalkIdle ==
    /\ files = << >>
    /\ excluding = << >>
    /\ rootIdx = 1
    /\ stack = << >>
    /\ pPc = "idle"
    /\ pending = [path |-> << >>, root |-> << >>]
    /\ filesChan = << >>
    /\ closed = FALSE
    /\ cPc = "idle"
    /\ cur = [path |-> << >>, root |-> << >>]
    /\ cancelled = FALSE
    /\ groupErr = Nil
    /\ returned = FALSE
    /\ result = Nil
    /\ passPc = "idle"
    /\ passOut = "none"
    /\ passErr = Nil
    /\ visited = << >>
    /\ visitErr = Nil
    /\ walked = {}
    /\ ioRoot = << >>
    /\ ioFirst = FALSE
    /\ ioNoVisit = FALSE

Init == WalkInit /\ ReportIdle /\ ExportIdle /\ RefIdle

Next ==
    \/ Producer
    \/ Consumer
    \/ Wait
    \/ PassReturn
    \/ Interrupt

Spec == Init /\ [][Next]_vars

(* The Go scheduler runs every goroutine that can take a step. *)
FairSpec ==
    /\ Spec
    /\ WF_vars(Producer)
    /\ WF_vars(Consumer)
    /\ WF_vars(Wait)
    /\ WF_vars(PassReturn)

----------------------------------------------------------------------------
(* The report: main after both passes returned.                            *)
(* A qualified name is a string of bytes, here a sequence of numbers;      *)
(* Go compares strings byte by byte, a proper prefix being the smaller.    *)
MaxSetSize == 3

QNames == {<<1>>, <<1, 1>>, <<1, 2>>, <<2>>, <<2, 1>>}

ResultSets == {S \in SUBSET QNames : Cardinality(S) <= MaxSetSize}

RECURSIVE StrLess(_, _)
StrLess(a, b) ==
    IF b = << >> THEN FALSE
    ELSE IF a = << >> THEN TRUE
    ELSE IF Head(a) # Head(b) THEN Head(a) < Head(b)
    ELSE StrLess(Tail(a), Tail(b))

StrGeq(a, b) == ~StrLess(a, b)

(* sort.Search(n, f) for f(i) = list[i] >= elem, between i and j (0-based). *)
RECURSIVE Search(_, _, _, _)
Search(list, elem, i, j) ==
    IF i < j
    THEN LET h == (i + j) \div 2
         IN  IF ~StrGeq(list[h + 1], elem)
             THEN Search(list, elem, h + 1, j)
             ELSE Search(list, elem, i, h)
    ELSE i

(* sortedInsert that sets list[i] without shifting the tail over. *)
sortedInsertNoShift(list, elem) ==
    LET i == Search(list, elem, 0, Len(list))
    IN  IF i = Len(list) THEN Append(list, elem)
        ELSE [list EXCEPT ![i + 1] = elem]

sortedInsert(list, elem) ==
    LET i == Search(list, elem, 0, Len(list))
    IN  IF i = Len(list) THEN Append(list, elem)
        ELSE LET shifted == SubSeq(list, 1, i + 1) \o SubSeq(list, i + 1, Len(list))
             IN  [shifted EXCEPT ![i + 1] = elem]

(* The test of the first loop with its negation lost. *)
IsUnusedNegated(k, r) == k \in r

(* if _, ok := refs[k]; !ok *)
IsUnused(k, r) == k \notin r

ReportInit ==
    /\ globals \in ResultSets
    /\ refs \in ResultSets
    /\ todoG = globals
    /\ todoR = refs
    /\ rpt = [Exported |-> << >>, Imported |-> << >>, UnusedExports |-> << >>]
    /\ rPc = "globals"
    /\ iterated = << >>

(* One iteration of for k := range globals; the map's order is any order. *)
ReportGlobal ==
    /\ rPc = "globals"
    /\ \E k \in todoG :
        /\ rpt' = [rpt EXCEPT
                     !.Exported = sortedInsert(@, k),
                     !.UnusedExports = IF IsUnused(k, refs) THEN sortedInsert(@, k) ELSE @]
        /\ todoG' = todoG \ {k}
        /\ iterated' = Append(iterated, k)
    /\ UNCHANGED <<globals, refs, todoR, rPc>>
    /\ UNCHANGED <<walkVars, exportVars, refVars>>

ReportGlobalsDone ==
    /\ rPc = "globals"
    /\ todoG = {}
    /\ rPc' = "refs"
    /\ UNCHANGED <<globals, refs, todoG, todoR, rpt, iterated>>
    /\ UNCHANGED <<walkVars, exportVars, refVars>>

(* One iteration of for k := range refs. *)
ReportRef ==
    /\ rPc = "refs"
    /\ \E k \in todoR :
        /\ rpt' = [rpt EXCEPT !.Imported = sortedInsert(@, k)]
        /\ todoR' = todoR \ {k}
    /\ UNCHANGED <<globals, refs, todoG, rPc, iterated>>
    /\ UNCHANGED <<walkVars, exportVars, refVars>>

ReportRefsDone ==
    /\ rPc = "refs"
    /\ todoR = {}
    /\ rPc' = "done"
    /\ UNCHANGED <<globals, refs, todoG, todoR, rpt, iterated>>
    /\ UNCHANGED <<walkVars, exportVars, refVars>>

ReportNext ==
    \/ ReportGlobal
    \/ ReportGlobalsDone
    \/ ReportRef
    \/ ReportRefsDone

InitReport == ReportInit /\ WalkIdle /\ ExportIdle /\ RefIdle

SpecReport == InitReport /\ [][ReportNext]_vars

----------------------------------------------------------------------------
(* The exports pass: findExports' callback on each file, exportVisitor.    *)
(* A name is a sequence of characters.  An identifier carries its          *)
(* position and obj, the position of the object the parser resolved it to  *)
(* (ident.Obj.Pos()), 0 when ident.Obj is nil.  A node is                  *)
(*   FuncDecl   idents = <<Name>>, recv = it has a receiver, body = the    *)
(*              statements of its body                                     *)
(*   GenDecl    tok = "var", "const", "type" or "import", idents = the     *)
(*              names of its specs                                         *)
(*   AssignStmt tok = "define" (:=) or "assign" (=), idents = Lhs          *)
(*   DeclStmt   body = <<the GenDecl it wraps>>                            *)
MaxFiles == 2

Ident(name, pos, obj) == [name |-> name, pos |-> pos, obj |-> obj]

Node(kind, tok, recv, idents, body) ==
    [kind |-> kind, tok |-> tok, recv |-> recv, idents |-> idents, body |-> body]

FuncDecl(ident, recv, body) == Node("FuncDecl", "func", recv, <<ident>>, body)

GenDecl(tok, idents) == Node("GenDecl", tok, FALSE, idents, << >>)

AssignStmt(tok, idents) == Node("AssignStmt", tok, FALSE, idents, << >>)

DeclStmt(decl) == Node("DeclStmt", "", FALSE, << >>, <<decl>>)

SourceFile(pkgPath, parseErr, decls) ==
    [pkgPath |-> pkgPath, parseErr |-> parseErr, decls |-> decls]

(* package m:  func F() {}; func f() {}; func (r T) M() {}; var V, w int;  *)
(*             const C = 1; type T struct{}; var _ = 0                     *)
FileA ==
    SourceFile(<<"m">>, FALSE,
        << FuncDecl(Ident(<<"F">>, 10, 10), FALSE, << >>),
           FuncDecl(Ident(<<"f">>, 20, 20), FALSE, << >>),
           FuncDecl(Ident(<<"M">>, 30, 0), TRUE, << >>),
           GenDecl("var", <<Ident(<<"V">>, 40, 40), Ident(<<"w">>, 41, 41)>>),
           GenDecl("const", <<Ident(<<"C">>, 50, 50)>>),
           GenDecl("type", <<Ident(<<"T">>, 60, 60)>>),
           GenDecl("var", <<Ident(<<"_">>, 70, 70)>>) >>)

(* package m:  var X = 1                                                   *)
(*             func G() { L := 1; X = 2; var Y int; type Z int; L, e := 2, 3 } *)
FileB ==
    SourceFile(<<"m">>, FALSE,
        << GenDecl("var", <<Ident(<<"X">>, 10, 10)>>),
           FuncDecl(Ident(<<"G">>, 20, 20), FALSE,
               << AssignStmt("define", <<Ident(<<"L">>, 21, 21)>>),
                  AssignStmt("assign", <<Ident(<<"X">>, 22, 10)>>),
                  DeclStmt(GenDecl("var", <<Ident(<<"Y">>, 23, 23)>>)),
                  DeclStmt(GenDecl("type", <<Ident(<<"Z">>, 24, 24)>>)),
                  AssignStmt("define", <<Ident(<<"L">>, 25, 21), Ident(<<"e">>, 26, 26)>>) >>) >>)

(* package n:  type T int; func F() {} *)
FileC ==
    SourceFile(<<"n">>, FALSE,
        << GenDecl("type", <<Ident(<<"T">>, 10, 10)>>),
           FuncDecl(Ident(<<"F">>, 20, 20), FALSE, << >>) >>)

(* A file packages.Load attributes to no named package:  func H() {} *)
FileD ==
    SourceFile(<< >>, FALSE, << FuncDecl(Ident(<<"H">>, 10, 10), FALSE, << >>) >>)

(* A file parser.ParseFile rejects. *)
FileE == SourceFile(<<"m">>, TRUE, << >>)

ParsedFiles == {FileA, FileB, FileC, FileD, FileE}

UpperCase == {"C", "F", "G", "H", "L", "M", "T", "V", "X", "Y", "Z"}

(* ident.IsExported() *)
IsExported(name) == name # << >> /\ name[1] \in UpperCase

RECURSIVE TrimLeft(_, _)
TrimLeft(str, cutset) ==
    IF str # << >> /\ Head(str) \in cutset THEN TrimLeft(Tail(str), cutset) ELSE str

RECURSIVE TrimRight(_, _)
TrimRight(str, cutset) ==
    IF str # << >> /\ str[Len(str)] \in cutset
    THEN TrimRight(SubSeq(str, 1, Len(str) - 1), cutset)
    ELSE str

(* strings.Trim *)
Trim(str, cutset) == TrimRight(TrimLeft(str, cutset), cutset)

(* exportVisitor.add: the keys it sets in v.exports. *)
add(ident, pkgPath) ==
    IF ident.name = <<"_">> \/ ident.name = << >> THEN {}
    ELSE IF ident.obj # 0 /\ ident.obj = ident.pos /\ IsExported(ident.name)
         THEN {pkgPath \o <<".">> \o ident.name}
         ELSE {}

addAll(idents, pkgPath) == UNION {add(idents[i], pkgPath) : i \in 1..Len(idents)}

(* exportVisitor.Visit: the keys it sets for one node. *)
Visit(n, pkgPath) ==
    IF n.kind = "AssignStmt"
    THEN (IF n.tok # "define" THEN {} ELSE addAll(n.idents, pkgPath))
    ELSE IF n.kind = "FuncDecl" THEN addAll(n.idents, pkgPath)
    ELSE IF n.kind = "GenDecl" /\ n.tok \in {"var", "type"} THEN addAll(n.idents, pkgPath)
    ELSE {}

ExportInit ==
    /\ exFiles \in SeqsOf(ParsedFiles, 1, MaxFiles)
    /\ exIdx = 1
    /\ exNodes = << >>
    /\ exPkg = << >>
    /\ exPc = "next"
    /\ globals = {}
    /\ refs = {}
    /\ todoG = {}
    /\ todoR = {}
    /\ rpt = [Exported |-> << >>, Imported |-> << >>, UnusedExports |-> << >>]
    /\ rPc = "idle"
    /\ iterated = << >>

(* fn: parser.ParseFile failed. *)
ExParseFail ==
    /\ exPc = "next"
    /\ exIdx <= Len(exFiles)
    /\ exFiles[exIdx].parseErr
    /\ exPc' = "failed"
    /\ UNCHANGED <<exFiles, exIdx, exNodes, exPkg>>
    /\ UNCHANGED <<walkVars, reportVars, refVars>>

(* fn: no named package: "probably a test". *)
ExSkipFile ==
    /\ exPc = "next"
    /\ exIdx <= Len(exFiles)
    /\ ~exFiles[exIdx].parseErr
    /\ exFiles[exIdx].pkgPath = << >>
    /\ exIdx' = exIdx + 1
    /\ UNCHANGED <<exFiles, exNodes, exPkg, exPc>>
    /\ UNCHANGED <<walkVars, reportVars, refVars>>

(* fn: newExportVisitor, and ast.Walk begins with the file's declarations. *)
ExStartWalk ==
    /\ exPc = "next"
    /\ exIdx <= Len(exFiles)
    /\ ~exFiles[exIdx].parseErr
    /\ exFiles[exIdx].pkgPath # << >>
    /\ exPkg' = Trim(exFiles[exIdx].pkgPath, {"\""})
    /\ exNodes' = exFiles[exIdx].decls
    /\ exPc' = "walk"
    /\ UNCHANGED <<exFiles, exIdx>>
    /\ UNCHANGED <<walkVars, reportVars, refVars>>

(* ast.Walk: Visit on the next node, then its children before its siblings. *)
ExVisit ==
    /\ exPc = "walk"
    /\ exNodes # << >>
    /\ globals' = globals \cup Visit(Head(exNodes), exPkg)
    /\ exNodes' = Head(exNodes).body \o Tail(exNodes)
    /\ UNCHANGED <<exFiles, exIdx, exPkg, exPc>>
    /\ UNCHANGED <<refs, todoG, todoR, rpt, rPc, iterated>>
    /\ UNCHANGED <<walkVars, refVars>>

(* fn returns nil for this file. *)
ExFileDone ==
    /\ exPc = "walk"
    /\ exNodes = << >>
    /\ exIdx' = exIdx + 1
    /\ exPc' = "next"
    /\ UNCHANGED <<exFiles, exNodes, exPkg>>
    /\ UNCHANGED <<walkVars, reportVars, refVars>>

(* runOnFiles returned nil: findExports returns globals. *)
ExPassDone ==
    /\ exPc = "next"
    /\ exIdx > Len(exFiles)
    /\ exPc' = "done"
    /\ UNCHANGED <<exFiles, exIdx, exNodes, exPkg>>
    /\ UNCHANGED <<walkVars, reportVars, refVars>>

ExportNext ==
    \/ ExParseFail
    \/ ExSkipFile
    \/ ExStartWalk
    \/ ExVisit
    \/ ExFileDone
    \/ ExPassDone

InitExports == ExportInit /\ WalkIdle /\ RefIdle

SpecExports == InitExports /\ [][ExportNext]_vars

----------------------------------------------------------------------------
(* What the statements about the exports pass speak of. *)
QualifiedName(file, ident) == file.pkgPath \o <<".">> \o ident.name

IsTopLevelDecl(n) ==
    \/ n.kind = "FuncDecl"
    \/ n.kind = "GenDecl" /\ n.tok \in {"var", "const", "type"}

(* The files fn has begun or finished. *)
Scanned == {exFiles[i] : i \in 1..(IF exIdx <= Len(exFiles) THEN exIdx ELSE Len(exFiles))}

(* C5: every name of the export set comes from an identifier declared at top    *)
(* level of some file of the pass, neither blank nor empty, public, recorded at *)
(* its declaring occurrence; declarations inside a function body add none.      *)
C5_OnlyTopLevelExports ==
    \A q \in globals :
        \E f \in Scanned :
            \E d \in 1..Len(f.decls) :
                /\ IsTopLevelDecl(f.decls[d])
                /\ \E k \in 1..Len(f.decls[d].idents) :
                    LET id == f.decls[d].idents[k]
                    IN  /\ id.name # <<"_">>
                        /\ id.name # << >>
                        /\ IsExported(id.name)
                        /\ id.obj = id.pos
                        /\ q = QualifiedName(f, id)

(* C6: after the pass succeeded, every public, non-blank identifier of a        *)
(* top-level function, variable, constant or type declaration of a file whose   *)
(* module path resolves to M is in the export set as M.identifier.              *)
C6_EveryTopLevelExportRecorded ==
    exPc = "done" =>
        \A i \in 1..Len(exFiles) :
            exFiles[i].pkgPath # << >> =>
                \A d \in 1..Len(exFiles[i].decls) :
                    LET n == exFiles[i].decls[d]
                    IN  (IsTopLevelDecl(n) /\ ~n.recv) =>
                            \A k \in 1..Len(n.idents) :
                                (IsExported(n.idents[k].name) /\ n.idents[k].name # <<"_">>)
                                    => QualifiedName(exFiles[i], n.idents[k]) \in globals

----------------------------------------------------------------------------
(* The usage pass: findImports' callback on each file, refVisitor.         *)
(* A string is a sequence of tokens: a quote character, "/", or a run of   *)
(* other characters.  An import spec carries value, the path literal as    *)
(* written (ImportSpec.Path.Value, quotes included), and name, the         *)
(* explicit rename, << >> when ImportSpec.Name is nil.  An expression is   *)
(*   Ident         name                                                    *)
(*   SelectorExpr  kids = <<X>>, sel = Sel.Name                            *)
(*   CallExpr      kids = <<Fun>>                                          *)
ImportSpec(value, name) == [value |-> value, name |-> name]

ImportDecl(tok, specs) == [tok |-> tok, specs |-> specs]

Expr(kind, name, sel, kids) == [kind |-> kind, name |-> name, sel |-> sel, kids |-> kids]

IdentExpr(name) == Expr("Ident", name, << >>, << >>)

SelectorExpr(x, sel) == Expr("SelectorExpr", << >>, sel, <<x>>)

CallExpr(fun) == Expr("CallExpr", << >>, << >>, <<fun>>)

RefFile(parseErr, decls, exprs) == [parseErr |-> parseErr, decls |-> decls, exprs |-> exprs]

(* The double quote of an interpreted string literal. *)
DQ == "\""

(* The back quote of a raw string literal. *)
BQ == "backquote"

(* import ( "a/lib"; x "b/lib" ); var v = 0                                *)
(* lib.Foo; x.Bar(); local.Baz; lib.Cfg.Qux; f().Zed                       *)
RefFileA ==
    RefFile(FALSE,
        << ImportDecl("import", << ImportSpec(<<DQ, "a", "/", "lib", DQ>>, << >>),
                                   ImportSpec(<<DQ, "b", "/", "lib", DQ>>, <<"x">>) >>),
           ImportDecl("var", << >>) >>,
        << SelectorExpr(IdentExpr(<<"lib">>), <<"Foo">>),
           CallExpr(SelectorExpr(IdentExpr(<<"x">>), <<"Bar">>)),
           SelectorExpr(IdentExpr(<<"local">>), <<"Baz">>),
           SelectorExpr(SelectorExpr(IdentExpr(<<"lib">>), <<"Cfg">>), <<"Qux">>),
           SelectorExpr(CallExpr(IdentExpr(<<"f">>)), <<"Zed">>) >>)

(* import "c"; import lib "b/lib"                                          *)
(* c.Go; lib.Foo; x.Bar                                                    *)
RefFileB ==
    RefFile(FALSE,
        << ImportDecl("import", << ImportSpec(<<DQ, "c", DQ>>, << >>) >>),
           ImportDecl("import", << ImportSpec(<<DQ, "b", "/", "lib", DQ>>, <<"lib">>) >>) >>,
        << SelectorExpr(IdentExpr(<<"c">>), <<"Go">>),
           SelectorExpr(IdentExpr(<<"lib">>), <<"Foo">>),
           SelectorExpr(IdentExpr(<<"x">>), <<"Bar">>) >>)

(* import ( BQ a/lib BQ; y BQ c BQ ), both paths raw string literals        *)
(* lib.Raw; y.Zed                                                          *)
RefFileC ==
    RefFile(FALSE,
        << ImportDecl("import", << ImportSpec(<<BQ, "a", "/", "lib", BQ>>, << >>),
                                   ImportSpec(<<BQ, "c", BQ>>, <<"y">>) >>) >>,
        << SelectorExpr(IdentExpr(<<"lib">>), <<"Raw">>),
           SelectorExpr(IdentExpr(<<"y">>), <<"Zed">>) >>)

(* No imports:  lib.Foo; c.Go *)
RefFileD ==
    RefFile(FALSE, << >>,
        << SelectorExpr(IdentExpr(<<"lib">>), <<"Foo">>),
           SelectorExpr(IdentExpr(<<"c">>), <<"Go">>) >>)

(* A file parser.ParseFile rejects. *)
RefFileE == RefFile(TRUE, << >>, << >>)

RefFiles == {RefFileA, RefFileB, RefFileC, RefFileD, RefFileE}

(* strings.Split(str, "/"), the last of its parts. *)
RECURSIVE LastPart(_)
LastPart(str) ==
    IF \E i \in 1..Len(str) : str[i] = "/"
    THEN LastPart(Tail(str))
    ELSE str

(* The specs newRefVisitor reads: those of the IMPORT declarations, in order. *)
RECURSIVE ImportSpecs(_)
ImportSpecs(decls) ==
    IF decls = << >> THEN << >>
    ELSE (IF Head(decls).tok = "import" THEN Head(decls).specs ELSE << >>)
         \o ImportSpecs(Tail(decls))

impNameOf(spec) == Trim(spec.value, {DQ})

aliasOf(spec) == IF spec.name # << >> THEN spec.name ELSE LastPart(impNameOf(spec))

(* newRefVisitor: ip[alias] = impName for each spec, later specs overwriting. *)
RECURSIVE BuildImports(_, _)
BuildImports(specs, ip) ==
    IF specs = << >> THEN ip
    ELSE BuildImports(Tail(specs),
            [a \in DOMAIN ip \cup {aliasOf(Head(specs))} |->
                IF a = aliasOf(Head(specs)) THEN impNameOf(Head(specs)) ELSE ip[a]])

newRefVisitor(file) == BuildImports(ImportSpecs(file.decls), << >>)

(* refVisitor.Visit: the keys it sets in v.refs for one node. *)
RefVisit(n, ip) ==
    IF n.kind # "SelectorExpr" THEN {}
    ELSE IF n.kids[1].kind # "Ident" THEN {}
    ELSE IF n.kids[1].name \notin DOMAIN ip THEN {}
    ELSE {ip[n.kids[1].name] \o <<".">> \o n.sel}

RefInit ==
    /\ rfFiles \in SeqsOf(RefFiles, 1, MaxFiles)
    /\ rfIdx = 1
    /\ rfNodes = << >>
    /\ importedPkgs = << >>
    /\ rfPc = "next"
    /\ globals = {}
    /\ refs = {}
    /\ todoG = {}
    /\ todoR = {}
    /\ rpt = [Exported |-> << >>, Imported |-> << >>, UnusedExports |-> << >>]
    /\ rPc = "idle"
    /\ iterated = << >>

(* fn: parser.ParseFile failed. *)
RfParseFail ==
    /\ rfPc = "next"
    /\ rfIdx <= Len(rfFiles)
    /\ rfFiles[rfIdx].parseErr
    /\ rfPc' = "failed"
    /\ UNCHANGED <<rfFiles, rfIdx, rfNodes, importedPkgs>>
    /\ UNCHANGED <<walkVars, reportVars, exportVars>>

(* fn: newRefVisitor, and ast.Walk begins. *)
RfStartWalk ==
    /\ rfPc = "next"
    /\ rfIdx <= Len(rfFiles)
    /\ ~rfFiles[rfIdx].parseErr
    /\ importedPkgs' = newRefVisitor(rfFiles[rfIdx])
    /\ rfNodes' = rfFiles[rfIdx].exprs
    /\ rfPc' = "walk"
    /\ UNCHANGED <<rfFiles, rfIdx>>
    /\ UNCHANGED <<walkVars, reportVars, exportVars>>

(* ast.Walk: Visit on the next node, then its children before its siblings. *)
RfVisit ==
    /\ rfPc = "walk"
    /\ rfNodes # << >>
    /\ refs' = refs \cup RefVisit(Head(rfNodes), importedPkgs)
    /\ rfNodes' = Head(rfNodes).kids \o Tail(rfNodes)
    /\ UNCHANGED <<rfFiles, rfIdx, importedPkgs, rfPc>>
    /\ UNCHANGED <<globals, todoG, todoR, rpt, rPc, iterated>>
    /\ UNCHANGED <<walkVars, exportVars>>

(* fn returns nil for this file. *)
RfFileDone ==
    /\ rfPc = "walk"
    /\ rfNodes = << >>
    /\ rfIdx' = rfIdx + 1
    /\ rfPc' = "next"
    /\ UNCHANGED <<rfFiles, rfNodes, importedPkgs>>
    /\ UNCHANGED <<walkVars, reportVars, exportVars>>

(* runOnFiles returned nil: findImports returns refs. *)
RfPassDone ==
    /\ rfPc = "next"
    /\ rfIdx > Len(rfFiles)
    /\ rfPc' = "done"
    /\ UNCHANGED <<rfFiles, rfIdx, rfNodes, importedPkgs>>
    /\ UNCHANGED <<walkVars, reportVars, exportVars>>

RefNext ==
    \/ RfParseFail
    \/ RfStartWalk
    \/ RfVisit
    \/ RfFileDone
    \/ RfPassDone

InitRefs == RefInit /\ WalkIdle /\ ExportIdle

SpecRefs == InitRefs /\ [][RefNext]_vars

----------------------------------------------------------------------------
(* What the statements about the usage pass speak of. *)

(* The import path a path literal denotes: the literal without its quotes. *)
ImportPath(spec) == SubSeq(spec.value, 2, Len(spec.value) - 1)

(* The alias of an import: its explicit rename, else the last segment of its path. *)
ImportAlias(spec) == IF spec.name # << >> THEN spec.name ELSE LastPart(ImportPath(spec))

(* Every expression of a tree, at any depth. *)
RECURSIVE SubExprs(_)
SubExprs(x) == {x} \cup UNION {SubExprs(x.kids[i]) : i \in 1..Len(x.kids)}

ExprsOf(file) == UNION {SubExprs(file.exprs[i]) : i \in 1..Len(file.exprs)}

(* The names the usage set is to hold for one file. *)
UsagesOf(file) ==
    LET specs == ImportSpecs(file.decls)
    IN  { ImportPath(specs[i]) \o <<".">> \o x.sel :
            <<i, x>> \in { <<j, y>> \in (1..Len(specs)) \X ExprsOf(file) :
                            /\ y.kind = "SelectorExpr"
                            /\ y.kids[1].kind = "Ident"
                            /\ y.kids[1].name = ImportAlias(specs[j]) } }

(* C7: after the pass succeeded, the usage set is exactly the names P.name for  *)
(* which some file of the pass imports module path P under alias a (the         *)
(* explicit rename, else the last segment of P) and holds a selector            *)
(* expression a.name; aliases are resolved with the file's own imports only.    *)
C7_UsageSetExact ==
    rfPc = "done" => refs = UNION {UsagesOf(rfFiles[i]) : i \in 1..Len(rfFiles)}

----------------------------------------------------------------------------
(* What the statements about the report speak of. *)
Elems(list) == {list[i] : i \in 1..Len(list)}

StrictlyAscending(list) ==
    \A i \in 1..(Len(list) - 1) : StrLess(list[i], list[i + 1])

(* C4: UnusedExports holds exactly the names of the export set that are not in  *)
(* the usage set, Exported exactly the export set, Imported exactly the usage   *)
(* set; UnusedExports is within Exported and shares nothing with Imported.      *)
C4_ReportSets ==
    rPc = "done" =>
        /\ Elems(rpt.UnusedExports) = globals \ refs
        /\ Elems(rpt.Exported) = globals
        /\ Elems(rpt.Imported) = refs
        /\ Elems(rpt.UnusedExports) \subseteq Elems(rpt.Exported)
        /\ Elems(rpt.UnusedExports) \cap Elems(rpt.Imported) = {}

C4_Witness ==
    /\ rPc = "done"
    /\ globals \cap refs # {}
    /\ globals \ refs # {}
    /\ refs \ globals # {}

(* C8: whatever the iteration order, each of the three sequences is strictly    *)
(* ascending and holds exactly the elements inserted so far, none lost.         *)
C8_SortedNoneLost ==
    /\ StrictlyAscending(rpt.Exported)
    /\ StrictlyAscending(rpt.Imported)
    /\ StrictlyAscending(rpt.UnusedExports)
    /\ Elems(rpt.Exported) = globals \ todoG
    /\ Len(rpt.Exported) = Cardinality(globals \ todoG)
    /\ Elems(rpt.UnusedExports) = (globals \ todoG) \ refs
    /\ Len(rpt.UnusedExports) = Cardinality((globals \ todoG) \ refs)
    /\ Elems(rpt.Imported) = refs \ todoR
    /\ Len(rpt.Imported) = Cardinality(refs \ todoR)

(* The first loop met three keys, the last one the smallest, the second one the *)
(* largest: an insertion at the end, then one at the front.                     *)
C8_Witness ==
    /\ rPc = "done"
    /\ Len(iterated) = 3
    /\ StrLess(iterated[3], iterated[1])
    /\ StrLess(iterated[1], iterated[2])
    /\ Len(rpt.Imported) = 3

----------------------------------------------------------------------------
(* What the statements about runOnFiles speak of. *)
VisitedPaths == {visited[i].path : i \in 1..Len(visited)}

BeneathOrEqual(path, dir) ==
    \/ path = dir
    \/ /\ Len(path) > Len(dir)
       /\ SubSeq(path, 1, Len(dir)) = dir
       /\ path[Len(dir) + 1] = "/"

HasVendorSegment(path) ==
    \E i \in 1..Len(path) :
        /\ path[i] = "vendor"
        /\ (i = 1 \/ path[i - 1] = "/")
        /\ (i = Len(path) \/ path[i + 1] = "/")

NameEndsInGo(path) == path # << >> /\ path[Len(path)] = ".go"

Stripped(path) ==
    IF path # << >> /\ path[Len(path)] = "/" THEN SubSeq(path, 1, Len(path) - 1) ELSE path

UnderExclusion(path) ==
    \E i \in 1..Len(excluding) : BeneathOrEqual(path, Stripped(excluding[i]))

Qualifying(path) ==
    /\ path \in RegularFiles
    /\ NameEndsInGo(path)
    /\ ~HasVendorSegment(path)
    /\ ~UnderExclusion(path)
    /\ \E i \in 1..Len(files) : BeneathOrEqual(path, files[i])

Unwound == returned /\ pPc = "done" /\ cPc = "done" /\ closed

(* C1: once fn has failed on a file, runOnFiles eventually returns, with the    *)
(* producer and the consumer finished and the channel closed, and returns that  *)
(* failure.  Stated for the runs in which that failure is the first one the     *)
(* group recorded (no traversal error came before it).                          *)
C1_VisitFailureUnwinds ==
    (visitErr # Nil /\ groupErr = visitErr) ~> (Unwound /\ result = visitErr)

(* C2: when runOnFiles returns with no failure of fn and no traversal error, fn *)
(* has been invoked on every qualifying file beneath the roots; an exclusion    *)
(* removes only the excluded path's own subtree.                                *)
C2_EveryQualifyingFileVisited ==
    (returned /\ result = Nil /\ visitErr = Nil /\ ioRoot = << >>)
        => \A f \in RegularFiles : Qualifying(f) => f \in VisitedPaths

(* C10: within one pass fn is invoked at most once for any file path.           *)
C10_VisitedAtMostOnce ==
    \A i, j \in 1..Len(visited) : visited[i].path = visited[j].path => i = j

(* C3, as stated: fn is never invoked on a file with a vendor segment, on a     *)
(* file equal to or beneath an excluded path, on a directory, or on a file      *)
(* whose name does not end in .go.                                              *)
C3_NeverVisitsPruned ==
    \A i \in 1..Len(visited) :
        /\ visited[i].path \in RegularFiles
        /\ NameEndsInGo(visited[i].path)
        /\ ~HasVendorSegment(visited[i].path)
        /\ ~UnderExclusion(visited[i].path)

(* C3, amended: the same, for the excluded paths that are the walked root or    *)
(* lie beneath it.                                                              *)
C3_NeverVisitsPrunedBelowRoot ==
    \A i \in 1..Len(visited) :
        /\ visited[i].path \in RegularFiles
        /\ NameEndsInGo(visited[i].path)
        /\ ~HasVendorSegment(visited[i].path)
        /\ \A k \in 1..Len(excluding) :
              BeneathOrEqual(Stripped(excluding[k]), visited[i].root)
                  => ~BeneathOrEqual(visited[i].path, Stripped(excluding[k]))

C3_Witness ==
    /\ returned
    /\ result = Nil
    /\ files = <<P>>
    /\ excluding = <<D \o fsep>>
    /\ Len(visited) = 3

(* C9, as stated: a traversal I/O error with no failure of fn recorded before   *)
(* it is the error runOnFiles returns, no later root is walked, the channel is  *)
(* closed and the pass returns an error and no result set.                      *)
IoFatal ==
    /\ files[rootIdx] = ioRoot
    /\ walked = 1..rootIdx
    /\ closed
    /\ returned => result = WalkError(ioRoot, "io")
    /\ passPc = "returned" => (passOut = "nil" /\ passErr = PassError(result))

C9_IoErrorFatal == (ioRoot # << >> /\ ioNoVisit) => IoFatal

(* C9, amended: the same when no error at all (a failure of fn, or the          *)
(* consumer's ctx.Err() after the caller's context was cancelled) was recorded  *)
(* before the I/O error; and the call then terminates.                          *)
C9_IoErrorFatalWhenFirst ==
    /\ []((ioRoot # << >> /\ ioFirst) => IoFatal)
    /\ (ioRoot # << >> /\ ioFirst) ~> (Unwound /\ passPc = "returned")

C9_Witness ==
    /\ ioRoot # << >>
    /\ ioFirst
    /\ passPc = "returned"
    /\ Len(files) = 2
    /\ rootIdx = 1
    /\ visited # << >>

====
